---- MODULE Spec2Model ----
(***************************************************************************)
(* Model of the japanese-vocab add-on (src/japanese-vocab/__init__.py):    *)
(* the retry loop call_openai_structured and the two batch commands        *)
(* generate_kanji and generate_romaji over the notes selected in the       *)
(* browser.  One blocking API request is split in two steps (issue,        *)
(* outcome); everything between two requests is one step.                  *)
(***************************************************************************)
EXTENDS Integers, Sequences, FiniteSets, TLC

\* ------------------------------------------------------------------ bounds

\* Notes in the collection (and the longest selection).
MaxNotes == 2

\* Largest max_retries a direct call of call_openai_structured is given.
MaxRetriesArg == 4

\* The default of the max_retries parameter.
DefaultMaxRetries == 3

\* ------------------------------------------------------------------- text

\* A string is a sequence of characters; these are the characters used.
Whitespace == {" "}

\* str.strip(): drop the leading, then the trailing whitespace.
RECURSIVE LStrip(_)
LStrip(s) ==
    IF s # <<>> /\ Head(s) \in Whitespace THEN LStrip(Tail(s)) ELSE s

RECURSIVE RStrip(_)
RStrip(s) ==
    IF s # <<>> /\ s[Len(s)] \in Whitespace
    THEN RStrip(SubSeq(s, 1, Len(s) - 1))
    ELSE s

Strip(s) == RStrip(LStrip(s))

\* The texts a field of a note holds before the run: empty, whitespace only,
\* a word, and a word with whitespace around it.
Texts == {<<>>, <<" ">>, <<"a">>, <<" ", "a", " ">>}

\* ------------------------------------------------------------------ notes

FieldNames == {"Kana", "English", "Kanji", "Romanji"}

\* A note is the function from the field names of its note type to texts;
\* `"Kana" in note` is "Kana" \in DOMAIN note.
HasField(note, name) == name \in DOMAIN note

\* Every note over the four fields, each field absent or holding a text.
AllNotes == UNION {[fs -> Texts] : fs \in SUBSET FieldNames}

Note(kana, english, kanji, romanji) ==
    [f \in FieldNames |->
        CASE f = "Kana" -> kana
          [] f = "English" -> english
          [] f = "Kanji" -> kanji
          [] OTHER -> romanji]

Without(note, names) == [f \in (DOMAIN note) \ names |-> note[f]]

\* The notes a collection of several notes is drawn from: a note both
\* commands fill, a note with both targets filled, a note with a blank
\* English and a filled Romanji, a note type without English, and a note
\* type without the two target fields.  (InitNote draws from AllNotes.)
Deck ==
    { Note(<<" ", "a", " ">>, <<"a">>, <<>>, <<" ">>),
      Note(<<"a">>, <<"a">>, <<" ", "a", " ">>, <<"a">>),
      Note(<<"a">>, <<" ">>, <<>>, <<"a">>),
      Without(Note(<<"a">>, <<>>, <<>>, <<>>), {"English"}),
      Without(Note(<<"a">>, <<"a">>, <<>>, <<>>), {"Kanji", "Romanji"}) }

\* ----------------------------------------------------------- API outcomes

\* A parsed JSON value: null, a string, or an object (its members).
JsonNull == [t |-> "null"]
JsonStr(s) == [t |-> "str", s |-> s]
JsonObj(m) == [t |-> "obj", m |-> m]

\* The string an answer carries.
Answer == <<"b">>

MemberValues == {JsonNull, JsonStr(<<>>), JsonStr(Answer)}

\* Response bodies that are valid JSON: null, the empty object, and the
\* objects with one of the two result keys.
JsonValues ==
    {JsonNull, JsonObj(<<>>)}
    \cup {JsonObj([k \in {key} |-> v]) : key \in {"kanji", "romaji"}, v \in MemberValues}

\* What one attempt can meet: the request raises, the completion has no
\* content (json.loads(None) raises TypeError), the content is not JSON, or
\* the content is JSON.
Outcomes ==
    {[kind |-> "raise"], [kind |-> "nocontent"], [kind |-> "badjson"]}
    \cup {[kind |-> "json", value |-> v] : v \in JsonValues}

\* dict.get(key): None (null) when the key is missing.
Get(value, key) ==
    IF key \in DOMAIN value.m THEN value.m[key] ELSE JsonNull

\* Variant: only null is false (the empty string passes).
TruthyNotNull(v) == v.t = "str"

\* Python truth of a parsed member: null and "" are false.
Truthy(v) == v.t = "str" /\ v.s # <<>>

\* ---------------------------------------------------------- configuration

\* The add-on configuration: absent (None), the empty dict, a dict without
\* the entry "openai_key", or a dict with it, its value empty or not.
NoConfig == [exists |-> FALSE, entries |-> <<>>]
ConfigOf(entries) == [exists |-> TRUE, entries |-> entries]

Configs ==
    {NoConfig, ConfigOf(<<>>), ConfigOf([k \in {"model"} |-> <<"m">>])}
    \cup {ConfigOf([k \in {"openai_key"} |-> key]) : key \in {<<>>, <<"s">>}}

\* Python truth of a dict and of a string: the empty ones are false.
DictTruthy(config) == config.exists /\ DOMAIN config.entries # {}
StrTruthy(s) == s # <<>>

ShowInfo(msg) == [fn |-> "showInfo", msg |-> msg]
Tooltip(msg) == [fn |-> "tooltip", msg |-> msg]

\* Variant: the checks are `is None` checks, so an empty dict and an empty
\* key pass.
get_openai_key_is_none(config) ==
    IF ~config.exists
    THEN [key |-> <<>>, ok |-> FALSE, shown |-> <<ShowInfo("No configuration found")>>]
    ELSE IF "openai_key" \notin DOMAIN config.entries
         THEN [key |-> <<>>, ok |-> FALSE, shown |-> <<ShowInfo("No OpenAI API key found")>>]
         ELSE [key |-> config.entries["openai_key"], ok |-> TRUE, shown |-> <<>>]

\* get_openai_key: the key, or None after one showInfo.
get_openai_key(config) ==
    IF ~DictTruthy(config)
    THEN [key |-> <<>>, ok |-> FALSE, shown |-> <<ShowInfo("No configuration found")>>]
    ELSE LET api_key == IF "openai_key" \in DOMAIN config.entries
                        THEN config.entries["openai_key"]
                        ELSE <<>>
         IN  IF ~StrTruthy(api_key)
             THEN [key |-> <<>>, ok |-> FALSE, shown |-> <<ShowInfo("No OpenAI API key found")>>]
             ELSE [key |-> api_key, ok |-> TRUE, shown |-> <<>>]

\* get_selected_notes: no visible browser or no selection gives []; else the
\* notes of the selected ids, loaded from the collection, in selection order.
get_selected_notes(browser, sel, col) ==
    IF ~browser \/ sel = <<>>
    THEN <<>>
    ELSE [i \in 1..Len(sel) |-> [nid |-> sel[i], fields |-> col[sel[i]]]]

\* ---------------------------------------------------------------- commands

Commands == {"kanji", "romaji"}

\* The fields a note must have, the field a command fills, the key of the
\* response it reads.
RequiredFields(c) ==
    IF c = "kanji" THEN {"Kana", "English", "Kanji"} ELSE {"Kana", "Romanji"}

TargetField(c) == IF c = "kanji" THEN "Kanji" ELSE "Romanji"

ResultKey(c) == IF c = "kanji" THEN "kanji" ELSE "romaji"

MissingFields(c, note) == \E f \in RequiredFields(c) : ~HasField(note, f)

\* Variant: generate_kanji does not look at English.
InputFieldsKanaOnly(c) == {"Kana"}

\* The fields whose stripped text must be non-empty for a request.
InputFields(c) == IF c = "kanji" THEN {"Kana", "English"} ELSE {"Kana"}

\* Variant: generate_romaji tests the Kanji field, as its twin does.
AlreadyFilledKanji(c, note) == HasField(note, "Kanji") /\ Strip(note["Kanji"]) # <<>>

\* "Skip if already has kanji or missing required data" (and the romaji twin).
AlreadyFilled(c, note) == Strip(note[TargetField(c)]) # <<>>

SkipNote(c, note) ==
    \/ \E f \in InputFields(c) : Strip(note[f]) = <<>>
    \/ AlreadyFilled(c, note)

\* note[field] = value
SetField(note, field, value) == [note EXCEPT ![field] = value]

\* Variants: the first failure is raised at once; no failure is ever raised.
IsLastAttemptFirst(a, n) == a = 0
IsLastAttemptNever(a, n) == a = n

\* attempt == max_retries - 1
IsLastAttempt(a, n) == a = n - 1

\* Variant: the loop steps over a note.
NextNoteSkip(i) == i + 2

\* The next value of the loop variable of `for note in notes`.
NextNote(i) == i + 1

\* The exception an attempt that did not give a parsed value leaves behind.
FailureOf(o) ==
    CASE o.kind = "raise" -> "APIError"
      [] o.kind = "nocontent" -> "TypeError"
      [] OTHER -> "JSONParseFailure"

\* ------------------------------------------------------------------- state

VARIABLES
    openaiOk,    \* the openai module was imported
    config,      \* the add-on configuration
    browser,     \* a visible browser window exists
    sel,         \* the note ids selected in the browser, in order
    col,         \* the collection: note id -> stored fields
    col0,        \* the collection as it was before the run
    cmd,         \* the command running, "none" for a direct call of the retry loop
    pc,          \* where the program is
    notes,       \* the loaded note objects of the selection
    idx,         \* position of the note being handled
    processed,   \* the counter processed
    errors,      \* the counter errors
    dialogs,     \* the showInfo and tooltip calls of the run, in order
    maxRetries,  \* max_retries of the current call
    attempt,     \* the loop variable of the retry loop
    inFlight,    \* requests issued and not yet answered
    response,    \* the value the call returned
    raised,      \* the exception the call raised
    lastOutcome, \* what the latest answered request met
    callReqs,    \* requests issued by the current call
    reqs,        \* requests issued for each note id
    flushed,     \* flushes of each note id
    visits       \* the note ids the loop has taken up, in order

vars ==
    <<openaiOk, config, browser, sel, col, col0, cmd, pc, notes, idx,
      processed, errors, dialogs, maxRetries, attempt, inFlight, response,
      raised, lastOutcome, callReqs, reqs, flushed, visits>>

envVars == <<openaiOk, config, browser, sel, col0>>
callVars == <<maxRetries, attempt, inFlight, response, raised, lastOutcome, callReqs>>

Nids == 1..MaxNotes

\* Sequences of distinct note ids.
Selections ==
    {s \in UNION {[1..n -> Nids] : n \in 0..MaxNotes} :
        \A i, j \in DOMAIN s : i # j => s[i] # s[j]}

NoError == "none"
NoOutcome == [kind |-> "none"]

\* The run has not begun; no call of the retry loop is active.
InitRun ==
    /\ cmd = "none"
    /\ notes = <<>>
    /\ idx = 0
    /\ processed = 0
    /\ errors = 0
    /\ dialogs = <<>>
    /\ attempt = 0
    /\ inFlight = 0
    /\ response = JsonNull
    /\ raised = NoError
    /\ lastOutcome = NoOutcome
    /\ callReqs = 0
    /\ visits = <<>>

InitEnv ==
    /\ openaiOk \in BOOLEAN
    /\ config \in Configs
    /\ browser \in BOOLEAN
    /\ sel \in (IF browser THEN {s \in Selections : s \in Seq(DOMAIN col)} ELSE {<<>>})
    /\ col0 = col
    /\ reqs = [n \in DOMAIN col |-> 0]
    /\ flushed = [n \in DOMAIN col |-> 0]

\* A collection of MaxNotes notes drawn from the deck, any selection of them,
\* before a menu action is triggered.
Init ==
    /\ col \in [Nids -> Deck]
    /\ InitEnv
    /\ InitRun
    /\ pc = "idle"
    /\ maxRetries = DefaultMaxRetries

\* A collection of one note, every note over the four fields.
InitNote ==
    /\ col \in [{1} -> AllNotes]
    /\ InitEnv
    /\ InitRun
    /\ pc = "idle"
    /\ maxRetries = DefaultMaxRetries

\* A direct call call_openai_structured(client, prompt, schema, n), n >= 1,
\* at its entry.
InitCall ==
    /\ col = <<>>
    /\ openaiOk = TRUE
    /\ config = ConfigOf([k \in {"openai_key"} |-> <<"s">>])
    /\ browser = FALSE
    /\ sel = <<>>
    /\ col0 = col
    /\ reqs = <<>>
    /\ flushed = <<>>
    /\ InitRun
    /\ pc = "call"
    /\ maxRetries \in 1..MaxRetriesArg

\* ----------------------------------------------------------------- actions

\* The menu action c is triggered: generate_kanji / generate_romaji up to
\* the first note (the import check, the key, the client, the selection).
\* Creating the client or loading the notes may raise, which the outer
\* except reports.
Trigger(c) ==
    /\ pc = "idle"
    /\ cmd' = c
    /\ UNCHANGED <<envVars, col, callVars, reqs, flushed, visits, processed, errors>>
    /\ IF ~openaiOk
       THEN /\ dialogs' = Append(dialogs, ShowInfo("OpenAI module not available"))
            /\ pc' = "done"
            /\ UNCHANGED <<notes, idx>>
       ELSE LET k == get_openai_key(config) IN
            IF ~k.ok
            THEN /\ dialogs' = dialogs \o k.shown
                 /\ pc' = "done"
                 /\ UNCHANGED <<notes, idx>>
            ELSE \E setupOk \in BOOLEAN :
                 IF ~setupOk
                 THEN /\ dialogs' = Append(dialogs, ShowInfo("Error"))
                      /\ pc' = "done"
                      /\ UNCHANGED <<notes, idx>>
                 ELSE LET loaded == get_selected_notes(browser, sel, col) IN
                      IF loaded = <<>>
                      THEN /\ dialogs' = Append(dialogs, ShowInfo("No notes selected"))
                           /\ pc' = "done"
                           /\ UNCHANGED <<notes, idx>>
                      ELSE /\ notes' = loaded
                           /\ idx' = 1
                           /\ pc' = "loop"
                           /\ UNCHANGED dialogs

\* The loop takes up the next note: the field checks, up to the call.
VisitNote ==
    /\ pc = "loop"
    /\ idx <= Len(notes)
    /\ visits' = Append(visits, notes[idx].nid)
    /\ UNCHANGED <<envVars, col, cmd, notes, processed, errors, dialogs,
                   inFlight, reqs, flushed>>
    /\ LET note == notes[idx].fields IN
       IF MissingFields(cmd, note) \/ SkipNote(cmd, note)
       THEN /\ idx' = NextNote(idx)
            /\ UNCHANGED <<pc, callVars>>
       ELSE /\ pc' = "call"
            /\ maxRetries' = DefaultMaxRetries
            /\ attempt' = 0
            /\ callReqs' = 0
            /\ response' = JsonNull
            /\ raised' = NoError
            /\ lastOutcome' = NoOutcome
            /\ UNCHANGED idx

\* The note ids the current request is for (none in a direct call).
CurrentNid == IF idx \in DOMAIN notes THEN {notes[idx].nid} ELSE {}

\* client.chat.completions.create(...) is called: one API request goes out.
IssueRequest ==
    /\ pc = "call"
    /\ pc' = "wait"
    /\ inFlight' = inFlight + 1
    /\ callReqs' = callReqs + 1
    /\ reqs' = [n \in DOMAIN reqs |-> IF n \in CurrentNid THEN reqs[n] + 1 ELSE reqs[n]]
    /\ UNCHANGED <<envVars, col, cmd, notes, idx, processed, errors, dialogs,
                   maxRetries, attempt, response, raised, lastOutcome, flushed, visits>>

\* The request returns a completion whose content parses: the call returns
\* the parsed value.
AttemptSucceeds(o) ==
    /\ pc = "wait"
    /\ o.kind = "json"
    /\ inFlight' = inFlight - 1
    /\ lastOutcome' = o
    /\ response' = o.value
    /\ pc' = "returned"
    /\ UNCHANGED <<envVars, col, cmd, notes, idx, processed, errors, dialogs,
                   maxRetries, attempt, raised, callReqs, reqs, flushed, visits>>

\* The request raises, or its content is missing or does not parse: the
\* last attempt raises to the caller, any other goes on to the next attempt.
\* A loop that runs out without raising returns None.
AttemptFails(o) ==
    /\ pc = "wait"
    /\ o.kind # "json"
    /\ inFlight' = inFlight - 1
    /\ lastOutcome' = o
    /\ UNCHANGED <<envVars, col, cmd, notes, idx, processed, errors, dialogs,
                   maxRetries, callReqs, reqs, flushed, visits>>
    /\ IF IsLastAttempt(attempt, maxRetries)
       THEN /\ raised' = FailureOf(o)
            /\ pc' = "raised"
            /\ UNCHANGED <<attempt, response>>
       ELSE IF attempt + 1 < maxRetries
            THEN /\ attempt' = attempt + 1
                 /\ pc' = "call"
                 /\ UNCHANGED <<raised, response>>
            ELSE /\ response' = JsonNull
                 /\ pc' = "returned"
                 /\ UNCHANGED <<raised, attempt>>

\* Variant: the result is written to the Kana field.
WriteResultKana(c, note, value) == SetField(note, "Kana", value)

\* note[target] = response[key]
WriteResult(c, note, value) == SetField(note, TargetField(c), value)

\* note.flush(): the note's fields are stored under its id.
Flush(collection, nid, fields) == [collection EXCEPT ![nid] = fields]

\* The call returned: `if response.get(key): note[target] = ...; flush;
\* processed += 1`.  A value that is no object has no get, and a flush may
\* raise: both end in the note's except clause (errors += 1).
HandleResponse ==
    /\ pc = "returned"
    /\ cmd \in Commands
    /\ pc' = "loop"
    /\ idx' = NextNote(idx)
    /\ UNCHANGED <<envVars, cmd, dialogs, callVars, reqs, visits>>
    /\ IF response.t # "obj"
       THEN /\ errors' = errors + 1
            /\ UNCHANGED <<col, notes, processed, flushed>>
       ELSE LET v == Get(response, ResultKey(cmd))
                nid == notes[idx].nid
                written == WriteResult(cmd, notes[idx].fields, v.s)
            IN  IF Truthy(v)
                THEN /\ notes' = [notes EXCEPT ![idx].fields = written]
                     /\ \E flushOk \in BOOLEAN :
                        IF flushOk
                        THEN /\ col' = Flush(col, nid, written)
                             /\ flushed' = [flushed EXCEPT ![nid] = @ + 1]
                             /\ processed' = processed + 1
                             /\ UNCHANGED errors
                        ELSE /\ errors' = errors + 1
                             /\ UNCHANGED <<col, flushed, processed>>
                ELSE UNCHANGED <<col, notes, processed, errors, flushed>>

\* The call raised: `except Exception: errors += 1; continue`.
HandleException ==
    /\ pc = "raised"
    /\ cmd \in Commands
    /\ errors' = errors + 1
    /\ pc' = "loop"
    /\ idx' = NextNote(idx)
    /\ UNCHANGED <<envVars, col, cmd, notes, processed, dialogs, callVars,
                   reqs, flushed, visits>>

\* The messages after the loop: the tooltip or the "nothing generated"
\* dialog, then the error count if there were errors.
SummaryOf(p, e) ==
    <<IF p > 0 THEN Tooltip("Generated") ELSE ShowInfo("Nothing generated")>>
    \o (IF e > 0 THEN <<ShowInfo("Encountered errors")>> ELSE <<>>)

Summary ==
    /\ pc = "loop"
    /\ idx > Len(notes)
    /\ dialogs' = dialogs \o SummaryOf(processed, errors)
    /\ pc' = "done"
    /\ UNCHANGED <<envVars, col, cmd, notes, idx, processed, errors, callVars,
                   reqs, flushed, visits>>

\* ---------------------------------------------------------- specifications

NextCall ==
    \/ IssueRequest
    \/ \E o \in Outcomes : AttemptSucceeds(o)
    \/ \E o \in Outcomes : AttemptFails(o)

Next ==
    \/ \E c \in Commands : Trigger(c)
    \/ VisitNote
    \/ IssueRequest
    \/ \E o \in Outcomes : AttemptSucceeds(o)
    \/ \E o \in Outcomes : AttemptFails(o)
    \/ HandleResponse
    \/ HandleException
    \/ Summary

\* A run of one menu action over a collection drawn from the deck.
Spec == Init /\ [][Next]_vars

\* A run of one menu action over a collection of one arbitrary note.
SpecNote == InitNote /\ [][Next]_vars

\* One direct call of the retry loop with max_retries in 1..MaxRetriesArg.
SpecCall == InitCall /\ [][NextCall]_vars

\* The code is sequential and runs on: a step that can be taken is taken,
\* and every request is answered (it returns or it raises).
FairSpec == Spec /\ WF_vars(Next)

\* ------------------------------------------------------------------ claims

\* A text with nothing left once whitespace is stripped.
Blank(s) == \A i \in DOMAIN s : s[i] \in Whitespace

SelectedNids == {sel[i] : i \in DOMAIN sel}
RequestedNids == {n \in DOMAIN reqs : reqs[n] > 0}

RECURSIVE SumOver(_, _)
SumOver(f, S) ==
    IF S = {} THEN 0
    ELSE LET x == CHOOSE y \in S : TRUE IN f[x] + SumOver(f, S \ {x})

TotalRequests == SumOver(reqs, DOMAIN reqs)

\* C1: a call with max_retries = n >= 1 issues at most n requests, one after
\* another (none is issued while one is in flight); every failed attempt
\* uses up exactly one attempt, so the requests issued are the attempts
\* begun; the call returns exactly when the latest request gave a parsed
\* value, which is the value returned, and it raises only when all n
\* attempts have failed.
C1_RetryLoop ==
    /\ maxRetries >= 1
    /\ callReqs <= maxRetries
    /\ attempt < maxRetries
    /\ inFlight = (IF pc = "wait" THEN 1 ELSE 0)
    /\ callReqs = attempt + (IF pc = "call" THEN 0 ELSE 1)
    /\ pc = "call" => (attempt = 0 \/ lastOutcome.kind \in {"raise", "nocontent", "badjson"})
    /\ pc = "returned" => lastOutcome.kind = "json" /\ response = lastOutcome.value
    /\ pc = "raised" => lastOutcome.kind # "json" /\ callReqs = maxRetries

\* A retry succeeded while attempts were left: the call returned at once.
C1_Witness ==
    /\ pc = "returned"
    /\ cmd = "none"
    /\ attempt >= 1
    /\ callReqs < maxRetries
    /\ response.t = "obj"

SameButTarget(fields, old) ==
    /\ DOMAIN fields = DOMAIN old
    /\ \A f \in DOMAIN old :
        fields[f] # old[f] =>
            \/ cmd = "kanji" /\ f = "Kanji"
            \/ cmd = "romaji" /\ f = "Romanji"

\* C2: a run changes no field but the command's target field (Kanji for
\* generate_kanji, Romanji for generate_romaji), in the stored notes and in
\* the loaded note objects alike, and a note outside the selection is
\* neither changed nor flushed.
C2_OnlyTargetWritten ==
    /\ DOMAIN col = DOMAIN col0
    /\ \A n \in DOMAIN col : SameButTarget(col[n], col0[n])
    /\ \A i \in DOMAIN notes : SameButTarget(notes[i].fields, col0[notes[i].nid])
    /\ \A i \in DOMAIN notes : notes[i].nid \in SelectedNids
    /\ \A n \in DOMAIN col \ SelectedNids : col[n] = col0[n] /\ flushed[n] = 0

\* A run ended with a selected note stored anew and another note unselected.
C2_Witness ==
    /\ pc = "done"
    /\ \E n \in SelectedNids : col[n] # col0[n] /\ flushed[n] = 1
    /\ DOMAIN col \ SelectedNids # {}

TargetOf(c) == IF c = "kanji" THEN "Kanji" ELSE "Romanji"

Filled(c, old) == TargetOf(c) \in DOMAIN old /\ ~Blank(old[TargetOf(c)])

\* C3: a selected note whose target field is not blank gets no request, is
\* not changed and is not flushed; and only notes that got a request are
\* counted as processed or as errors.
C3_NeverOverwrites ==
    /\ \A i \in DOMAIN notes :
        LET n == notes[i].nid IN
        Filled(cmd, col0[n]) =>
            /\ reqs[n] = 0
            /\ flushed[n] = 0
            /\ col[n] = col0[n]
            /\ notes[i].fields = col0[n]
    /\ processed + errors <= Cardinality(RequestedNids)

\* A run with requests ended, and a selected note with a filled target was
\* passed over.
C3_Witness ==
    /\ pc = "done"
    /\ TotalRequests > 0
    /\ \E i \in DOMAIN notes :
        /\ Filled(cmd, col0[notes[i].nid])
        /\ \A f \in {"Kana", "English"} :
            f \in DOMAIN col0[notes[i].nid] /\ ~Blank(col0[notes[i].nid][f])

HasKey ==
    /\ config.exists
    /\ "openai_key" \in DOMAIN config.entries
    /\ config.entries["openai_key"] # <<>>

NothingSelected == ~browser \/ sel = <<>>

PreconditionFails == ~openaiOk \/ ~HasKey \/ NothingSelected

\* C4: when the openai import failed, the configuration is missing, it holds
\* no non-empty openai_key, or no notes are selected, a triggered run has
\* ended with exactly one showInfo dialog, no request and no note changed.
C4_PreconditionsGuard ==
    (cmd \in Commands /\ PreconditionFails) =>
        /\ pc = "done"
        /\ Len(dialogs) = 1
        /\ dialogs[1].fn = "showInfo"
        /\ TotalRequests = 0
        /\ callReqs = 0
        /\ inFlight = 0
        /\ notes = <<>>
        /\ col = col0
        /\ \A n \in DOMAIN flushed : flushed[n] = 0

\* The key is there but nothing is selected in the open browser.
C4_Witness ==
    /\ pc = "done"
    /\ openaiOk
    /\ HasKey
    /\ browser
    /\ sel = <<>>
    /\ dialogs = <<ShowInfo("No notes selected")>>

NeedsRequest(c, old) ==
    IF c = "kanji"
    THEN /\ {"Kana", "English", "Kanji"} \subseteq DOMAIN old
         /\ ~Blank(old["Kana"])
         /\ ~Blank(old["English"])
         /\ Blank(old["Kanji"])
    ELSE /\ {"Kana", "Romanji"} \subseteq DOMAIN old
         /\ ~Blank(old["Kana"])
         /\ Blank(old["Romanji"])

\* C5: generate_romaji asks for a note exactly when the note has Kana and
\* Romanji, Kana is not blank and Romanji is blank, whatever its English
\* field; generate_kanji exactly when the note has Kana, English and Kanji,
\* Kana and English are not blank and Kanji is blank.  Any other note is
\* passed over: no request, no write, no flush, no error.
C5_RequestCondition ==
    /\ \A i \in DOMAIN notes :
        LET n == notes[i].nid IN
        /\ reqs[n] > 0 => NeedsRequest(cmd, col0[n])
        /\ (i < idx /\ NeedsRequest(cmd, col0[n])) => reqs[n] > 0
        /\ (i = idx /\ pc \in {"call", "wait", "returned", "raised"}) =>
               NeedsRequest(cmd, col0[n])
        /\ ~NeedsRequest(cmd, col0[n]) =>
               /\ col[n] = col0[n]
               /\ notes[i].fields = col0[n]
               /\ flushed[n] = 0
    /\ errors <= Cardinality(RequestedNids)
    /\ processed <= Cardinality(RequestedNids)

\* generate_romaji asked for a note that has no English field.
C5_Witness ==
    /\ cmd = "romaji"
    /\ pc = "done"
    /\ \E i \in DOMAIN notes :
        /\ reqs[notes[i].nid] > 0
        /\ "English" \notin DOMAIN col0[notes[i].nid]

RaisesLastFailure ==
    /\ pc = "raised" =>
        /\ callReqs = maxRetries
        /\ lastOutcome.kind \in {"raise", "nocontent", "badjson"}
        /\ raised = FailureOf(lastOutcome)
        /\ raised # NoError
    /\ pc = "returned" => lastOutcome.kind = "json"
    /\ (pc = "done" /\ notes # <<>>) => Len(visits) = Len(notes)

ErrorStep ==
    pc = "raised" =>
        /\ errors' = errors + 1
        /\ processed' = processed
        /\ col' = col
        /\ notes' = notes
        /\ flushed' = flushed
        /\ reqs' = reqs
        /\ pc' = "loop"
        /\ idx' = idx + 1

\* C6: the call raises only after max_retries failed attempts, and raises
\* the failure of the last one; it never returns a value after a failed
\* last attempt.  The loop's step on a raised call adds one to errors,
\* leaves the stored and loaded notes, the flush counts and processed as
\* they are, and moves to the next note; a finished run has taken up every
\* selected note.
C6_FailureIsCounted == []RaisesLastFailure /\ [][ErrorStep]_vars

\* The first note's call raised after three requests, the error was counted
\* and a further selected note is still to come.
C6_Witness ==
    /\ pc = "loop"
    /\ idx = 2
    /\ Len(notes) >= 2
    /\ raised # NoError
    /\ reqs[notes[1].nid] = 3
    /\ errors = 1
    /\ col = col0

ResultOf(c, value) ==
    IF c = "kanji"
    THEN (IF "kanji" \in DOMAIN value.m THEN value.m["kanji"] ELSE JsonNull)
    ELSE (IF "romaji" \in DOMAIN value.m THEN value.m["romaji"] ELSE JsonNull)

EmptyResult(c, value) ==
    ResultOf(c, value) = JsonNull \/ ResultOf(c, value) = JsonStr(<<>>)

ResponseStep ==
    /\ (pc = "returned" /\ cmd \in Commands /\ response.t = "obj"
          /\ EmptyResult(cmd, response)) =>
             /\ notes' = notes
             /\ col' = col
             /\ flushed' = flushed
             /\ processed' = processed
             /\ errors' = errors
    /\ (notes' # notes \/ col' # col \/ flushed' # flushed \/ processed' # processed) =>
        \/ pc = "idle" /\ col' = col /\ flushed' = flushed /\ processed' = processed
        \/ /\ pc = "returned"
           /\ cmd \in Commands
           /\ response.t = "obj"
           /\ ~EmptyResult(cmd, response)
           /\ LET n == notes[idx].nid
                  t == TargetOf(cmd)
                  v == ResultOf(cmd, response).s
              IN  /\ notes' = [notes EXCEPT ![idx].fields[t] = v]
                  /\ \/ /\ flushed' = [flushed EXCEPT ![n] = 1]
                        /\ col' = [col EXCEPT ![n] = notes'[idx].fields]
                        /\ processed' = processed + 1
                        /\ errors' = errors
                     \/ /\ flushed' = flushed
                        /\ col' = col
                        /\ processed' = processed
                        /\ errors' = errors + 1

\* C7: when the returned object has no non-empty string under the result
\* key (null, missing, or ""), the step leaves the notes, the store, the
\* flush counts, processed and errors as they are; a step that changes a
\* loaded or stored note or flushes is the step on a returned object with a
\* non-empty result, the loaded note's target then holds that value, and
\* if the note was flushed the stored target holds it too and processed
\* grew by one.
C7_WriteOnlyNonEmpty == [][ResponseStep]_vars

\* The response for the first note held null under the result key; the note
\* was left as it was and nothing was counted.
C7_Witness ==
    /\ pc = "loop"
    /\ idx = 2
    /\ raised = NoError
    /\ reqs[notes[1].nid] > 0
    /\ response.t = "obj"
    /\ ResultKey(cmd) \in DOMAIN response.m
    /\ response.m[ResultKey(cmd)] = JsonNull
    /\ notes[1].fields = col0[notes[1].nid]
    /\ col = col0
    /\ processed = 0
    /\ errors = 0

IsPrefix(s, t) == Len(s) <= Len(t) /\ \A i \in DOMAIN s : s[i] = t[i]

IsSummary(d) ==
    d \in {Tooltip("Generated"), ShowInfo("Nothing generated")}

OneAtATime ==
    /\ inFlight \in {0, 1}
    /\ IsPrefix(visits, sel)
    /\ \A i, j \in DOMAIN visits : i # j => visits[i] # visits[j]
    /\ pc \in {"call", "wait", "returned", "raised"} /\ cmd \in Commands
           => idx = Len(visits)
    /\ pc = "loop" => idx = Len(visits) + 1
    /\ \A n \in DOMAIN reqs : reqs[n] <= 3
    /\ TotalRequests <= 3 * Len(notes)
    /\ (pc = "done" /\ notes # <<>>) =>
           /\ visits = sel
           /\ dialogs # <<>>
           /\ IsSummary(dialogs[1])

\* C8: the notes are taken up one at a time in selection order, each once;
\* at most one request is in flight; a run over N notes issues at most
\* 3 * N requests; a finished run over a non-empty selection took up every
\* note and showed its summary; and every run ends.
C8_RunTerminates == []OneAtATime /\ <>(pc = "done")

\* A run over MaxNotes notes ended after 3 requests for every note.
C8_Witness ==
    /\ pc = "done"
    /\ Len(notes) = MaxNotes
    /\ TotalRequests = 3 * MaxNotes
    /\ IsSummary(dialogs[1])

====
